---- MODULE Spec2Model ----
(***************************************************************************)
(* Model of backend/actions/actions.py: the four Rasa custom actions       *)
(* (financial advice, image generation, FAQ, suggestion submission), the   *)
(* module configuration they read, and the external services they call.    *)
(* One invocation of run is split at its blocking external calls: the      *)
(* step that issues the call, and the step in which the call resolves and  *)
(* the code after it runs.                                                 *)
(***************************************************************************)
EXTENDS Integers, Sequences, FiniteSets, TLC

VARIABLES
    config,     \* module globals read from the environment at import (lines 15-21)
    convs,      \* the conversations served by the process
    pc,         \* per conversation: where its invocation of run stands
    action,     \* per conversation: name() of the action invoked
    tracker,    \* per conversation: the Tracker handed to run
    net,        \* per conversation: whether the remote service ever answers
    out,        \* per conversation: dispatcher.messages of this invocation
    calls,      \* per conversation: HTTP requests issued by this invocation
    resp,       \* per conversation: how the HTTP call resolved
    smtp,       \* per conversation: the smtplib.SMTP session of this invocation
    events      \* per conversation: the list of events run returned

vars == <<config, convs, pc, action, tracker, net, out, calls, resp, smtp, events>>

----------------------------------------------------------------------------
(* Python values.  A str is a sequence of characters. *)

PyNone == [type |-> "NoneType"]

PyStr(s) == [type |-> "str", s |-> s]

\* truth value of a str-or-None (what `not x` negates)
Truthy(v) == v.type = "str" /\ v.s # <<>>

\* what an f-string writes for a str-or-None
Format(v) == IF v.type = "NoneType" THEN <<"N", "o", "n", "e">> ELSE v.s

\* dict.get(key, default)
DictGet(d, key, default) == IF key \in DOMAIN d THEN d[key] ELSE default

\* s[i..] of a sequence
Drop(s, n) == SubSeq(s, n + 1, Len(s))

IsPrefix(p, s) == Len(p) <= Len(s) /\ SubSeq(s, 1, Len(p)) = p

\* str.replace(old, new): every non-overlapping occurrence, left to right
RECURSIVE StrReplace(_, _, _)
StrReplace(s, old, new) ==
    IF s = <<>> THEN <<>>
    ELSE IF IsPrefix(old, s) THEN new \o StrReplace(Drop(s, Len(old)), old, new)
    ELSE <<Head(s)>> \o StrReplace(Tail(s), old, new)

Whitespace == {" "}

RECURSIVE LStrip(_)
LStrip(s) == IF s # <<>> /\ Head(s) \in Whitespace THEN LStrip(Tail(s)) ELSE s

RECURSIVE RStrip(_)
RStrip(s) ==
    IF s # <<>> /\ s[Len(s)] \in Whitespace THEN RStrip(SubSeq(s, 1, Len(s) - 1)) ELSE s

\* a prompt parser that forgets to trim
StrNoStrip(s) == s

\* str.strip()
StrStrip(s) == RStrip(LStrip(s))

----------------------------------------------------------------------------
(* Fixed texts of the module *)

Trigger == <<"/", "i", "m", "a", "g", "i", "n", "e">>

AdvicePrefix == "As a financial advisor, please provide helpful advice for: "

AdviceFallback == "I apologize, but I'm having trouble accessing my financial knowledge right now. Please try again in a moment."

ImageUsage == "Please provide a prompt for image generation. Use '/imagine [your prompt]'"

ImageCaption == "Here's your generated image:"

ImageFallback == "I apologize, but I'm having trouble generating images right now. Please try again in a moment."

FaqMessage == "Here are some frequently asked questions: ..."

SuggestionSent == "Thank you for your suggestion! It has been sent to our team for review."

SuggestionNoted == "Thank you for your suggestion! I've noted it down for our team."

DataUriPrefix == <<"d", "a", "t", "a", ":", "i", "m", "a", "g", "e", "/", "p", "n", "g", ";", "b", "a", "s", "e", "6", "4", ",">>

GEMINI_API_URL == "https://generativelanguage.googleapis.com/v1beta/models/gemini-1.5-pro-latest:generateContent"

IMAGE_API_URL == "https://api.stability.ai/v1/generation/stable-diffusion-v1-6/text-to-image"

TO_EMAIL == "professionalbusinessadvisory@gmail.com"

ActionNames ==
    {"action_financial_advice", "action_generate_image", "action_get_faq", "action_submit_suggestion"}

----------------------------------------------------------------------------
(* Bounds and the inputs drawn from them *)

MaxPieces == 3

\* the conversations the dialogue engine runs
Conversations == {"c1"}

\* the conversations of a process that serves two users at once
AllConversations == {"c1", "c2"}

\* user messages are built from the trigger token, a blank and a letter
Pieces == {Trigger, <<" ">>, <<"x">>}

RECURSIVE TextsOf(_)
TextsOf(n) ==
    IF n = 0 THEN {<<>>}
    ELSE LET shorter == TextsOf(n - 1)
         IN  shorter \cup {p \o t : p \in Pieces, t \in shorter}

UserTexts == TextsOf(MaxPieces)

\* tracker.latest_message: the text key may be missing, null, or a str
LatestMessages ==
    {[intent |-> "i"]}
        \cup {[intent |-> "i", text |-> PyNone]}
        \cup {[intent |-> "i", text |-> PyStr(t)] : t \in UserTexts}

Trackers == {[latest_message |-> m] : m \in LatestMessages}

\* the trackers of two simultaneous conversations: a null text, a prompt,
\* and the bare trigger token
ConcTrackers ==
    {[latest_message |-> [intent |-> "i", text |-> PyNone]],
     [latest_message |-> [intent |-> "i", text |-> PyStr(Trigger \o <<" ", "x">>)]],
     [latest_message |-> [intent |-> "i", text |-> PyStr(Trigger \o <<" ">>)]]}

\* the trackers the dialogue engine hands to run
TurnInputs == IF convs = Conversations THEN Trackers ELSE ConcTrackers

\* os.getenv gives None for an unset variable, and may give ''
EnvValues == {PyNone, PyStr(<<>>), PyStr(<<"k">>)}

\* the configurations of the two-conversation process: everything set, or nothing
ConcConfigs ==
    {[GEMINI_API_KEY |-> k, IMAGE_API_KEY |-> k, EMAIL_ADDRESS |-> k, EMAIL_PASSWORD |-> k] :
        k \in {PyNone, PyStr(<<"k">>)}}

Configs ==
    [GEMINI_API_KEY : {PyNone, PyStr(<<"k">>)},
     IMAGE_API_KEY  : EnvValues,
     EMAIL_ADDRESS  : {PyNone, PyStr(<<"m">>)},
     EMAIL_PASSWORD : {PyNone, PyStr(<<"p">>)}]

GEMINI_API_KEY == config.GEMINI_API_KEY

IMAGE_API_KEY == config.IMAGE_API_KEY

EMAIL_ADDRESS == config.EMAIL_ADDRESS

EMAIL_PASSWORD == config.EMAIL_PASSWORD

\* texts the text-generation service may put in a candidate
GeneratedTexts == {"", "Pay down high-interest debt first."}

MaxQuads == 2

\* groups of four base64 characters: three bytes each
FullQuads == {<<"A", "A", "A", "A">>, <<"Q", "U", "J", "D">>}

\* a padded group (one or two bytes) can only come last
LastQuads == FullQuads \cup {<<"Q", "Q", "=", "=">>, <<"/", "+", "8", "=">>}

RECURSIVE PayloadsOf(_)
PayloadsOf(n) ==
    IF n = 0 THEN {<<>>}
    ELSE IF n = 1 THEN {<<>>} \cup LastQuads
    ELSE LET shorter == PayloadsOf(n - 1)
         IN  shorter \cup {f \o p : f \in FullQuads, p \in shorter \ {<<>>}}

\* base64 payloads the image service may return
ImagePayloads == PayloadsOf(MaxQuads)

\* JSON bodies of the text-generation endpoint
GeminiBodies ==
    {[error |-> "blocked"],
     [candidates |-> <<>>],
     [candidates |-> <<[finishReason |-> "SAFETY"]>>],
     [candidates |-> <<[content |-> [role |-> "model"]]>>],
     [candidates |-> <<[content |-> [parts |-> <<>>]]>>],
     [candidates |-> <<[content |-> [parts |-> <<[inlineData |-> "x"]>>]]>>]}
        \cup {[candidates |-> <<[content |-> [parts |-> <<[text |-> t]>>]]>>] : t \in GeneratedTexts}
        \cup {[candidates |-> <<[content |-> [parts |-> <<[text |-> t]>>]],
                                [content |-> [parts |-> <<[text |-> "second"]>>]]>>] : t \in GeneratedTexts}

\* JSON bodies of the image-generation endpoint
ImageBodies ==
    {[message |-> "error"],
     [artifacts |-> <<>>],
     [artifacts |-> <<[finishReason |-> "ERROR"]>>]}
        \cup {[artifacts |-> <<[base64 |-> PyStr(b)]>>] : b \in ImagePayloads}

NoBody == [message |-> "error"]

\* how requests.post can resolve: an exception of the transport, or a response
HttpOutcomes(bodies) ==
    {[kind |-> "neterr"]}
        \cup {[kind |-> "response", status |-> 200, parses |-> FALSE, body |-> NoBody]}
        \cup {[kind |-> "response", status |-> s, parses |-> TRUE, body |-> NoBody] : s \in {403, 500}}
        \cup {[kind |-> "response", status |-> 200, parses |-> TRUE, body |-> b] : b \in bodies}

NoResp == [kind |-> "none"]

----------------------------------------------------------------------------
(* Helpers of the actions *)

\* a run that reports a slot change to the dialogue engine
ReturnedSlotSet == <<[event |-> "slot", name |-> "requested", value |-> "x"]>>

\* return []
ReturnedEvents == <<>>

\* CollectingDispatcher.utter_message(text=..., image=...)
Utter(text, image) == [text |-> text, image |-> image]

\* tracker.latest_message.get('text', '')
ReadUserMessage(trk) == DictGet(trk.latest_message, "text", PyStr(<<>>))

\* user_message.replace('/imagine', '').strip(); str methods do not exist on None
ParsePrompt(user_message) ==
    IF user_message.type = "NoneType"
    THEN [raised |-> TRUE, error |-> "AttributeError"]
    ELSE [raised |-> FALSE, prompt |-> StrStrip(StrReplace(user_message.s, Trigger, <<>>))]

\* a run without the credential check
ImageKeyUnchecked(api_key) == FALSE

\* if not api_key: raise ValueError(...)
ImageKeyMissing(api_key) == ~Truthy(api_key)

\* response.raise_for_status() raises for a 4xx or 5xx status
RaisesForStatus(status) == status >= 400 /\ status < 600

\* an extraction that takes the last candidate instead of the first
GeminiTextLast(body) ==
    IF "candidates" \notin DOMAIN body \/ body.candidates = <<>>
    THEN [ok |-> FALSE, error |-> "KeyError"]
    ELSE LET cand == body.candidates[Len(body.candidates)]
         IN  IF "content" \notin DOMAIN cand THEN [ok |-> FALSE, error |-> "KeyError"]
             ELSE IF "parts" \notin DOMAIN cand.content THEN [ok |-> FALSE, error |-> "KeyError"]
             ELSE IF Len(cand.content.parts) = 0 THEN [ok |-> FALSE, error |-> "IndexError"]
             ELSE IF "text" \notin DOMAIN cand.content.parts[1] THEN [ok |-> FALSE, error |-> "KeyError"]
             ELSE [ok |-> TRUE, val |-> cand.content.parts[1].text]

\* gemini_response['candidates'][0]['content']['parts'][0]['text']
GeminiText(body) ==
    IF "candidates" \notin DOMAIN body THEN [ok |-> FALSE, error |-> "KeyError"]
    ELSE IF Len(body.candidates) = 0 THEN [ok |-> FALSE, error |-> "IndexError"]
    ELSE IF "content" \notin DOMAIN body.candidates[1] THEN [ok |-> FALSE, error |-> "KeyError"]
    ELSE IF "parts" \notin DOMAIN body.candidates[1].content THEN [ok |-> FALSE, error |-> "KeyError"]
    ELSE IF Len(body.candidates[1].content.parts) = 0 THEN [ok |-> FALSE, error |-> "IndexError"]
    ELSE IF "text" \notin DOMAIN body.candidates[1].content.parts[1] THEN [ok |-> FALSE, error |-> "KeyError"]
    ELSE [ok |-> TRUE, val |-> body.candidates[1].content.parts[1].text]

\* data["artifacts"][0]["base64"]
ImageBase64(body) ==
    IF "artifacts" \notin DOMAIN body THEN [ok |-> FALSE, error |-> "KeyError"]
    ELSE IF Len(body.artifacts) = 0 THEN [ok |-> FALSE, error |-> "IndexError"]
    ELSE IF "base64" \notin DOMAIN body.artifacts[1] THEN [ok |-> FALSE, error |-> "KeyError"]
    ELSE [ok |-> TRUE, val |-> body.artifacts[1].base64]

\* a data URI written from the repr of a bytes object: b'...'
DataUriOfRepr(image_b64) ==
    PyStr(DataUriPrefix \o <<"b", "'">> \o Format(image_b64) \o <<"'">>)

\* f"data:image/png;base64,{image_b64}"
DataUri(image_b64) == PyStr(DataUriPrefix \o Format(image_b64))

\* a handler that posts the request again after a transport error
RequestsWithRetry(requests, o) ==
    IF o.kind = "neterr" THEN requests \o requests ELSE requests

\* the requests of the invocation once requests.post resolved as o: neither
\* the rest of the try body nor the except handler issues another one
RequestsAfter(requests, o) == requests

\* the try body of ActionFinancialAdvice.run after requests.post resolved as o:
\* the messages it leaves in the dispatcher
AdviceMessages(o) ==
    IF o.kind = "neterr" THEN <<Utter(AdviceFallback, PyNone)>>
    ELSE IF RaisesForStatus(o.status) THEN <<Utter(AdviceFallback, PyNone)>>
    ELSE IF ~o.parses THEN <<Utter(AdviceFallback, PyNone)>>
    ELSE IF ~GeminiText(o.body).ok THEN <<Utter(AdviceFallback, PyNone)>>
    ELSE <<Utter(GeminiText(o.body).val, PyNone)>>

\* a handler that still sends the image message after a failure
ImageFailedWithImage == <<Utter(ImageCaption, DataUri(PyNone))>>

\* the except handler of ActionGenerateImage.run
ImageFailed == <<Utter(ImageFallback, PyNone)>>

\* the try body of ActionGenerateImage.run after requests.post resolved as o
ImageMessages(o) ==
    IF o.kind = "neterr" THEN ImageFailed
    ELSE IF RaisesForStatus(o.status) THEN ImageFailed
    ELSE IF ~o.parses THEN ImageFailed
    ELSE IF ~ImageBase64(o.body).ok THEN ImageFailed
    ELSE <<Utter(ImageCaption, DataUri(ImageBase64(o.body).val))>>

\* a handler that only logs the failure
SuggestionFailedSilently == <<>>

\* the except handler of ActionSubmitSuggestion.run
SuggestionFailed == <<Utter(SuggestionNoted, PyNone)>>

\* the MIMEMultipart message built by ActionSubmitSuggestion.run
Envelope(user_message) ==
    [from    |-> EMAIL_ADDRESS,
     to      |-> TO_EMAIL,
     subject |-> "New Service Suggestion for PBASC",
     body    |-> <<"<html>...\"">> \o Format(user_message) \o <<"\"...</html>">>]

\* the mail relay accepts a login only with an address and a password
LoginAcceptable == Truthy(EMAIL_ADDRESS) /\ Truthy(EMAIL_PASSWORD)

NoSession == [opened |-> 0, closed |-> 0, open |-> FALSE, sent |-> <<>>]

NetBehaviours == {"answers", "silent"}

Finished == {"returned", "raised"}

Fresh == [latest_message |-> [intent |-> "i"]]

----------------------------------------------------------------------------
(* Initial state: the module is imported, no action has been invoked *)

Init ==
    /\ config \in Configs
    /\ convs = Conversations
    /\ pc = [c \in convs |-> "idle"]
    /\ action = [c \in convs |-> "none"]
    /\ tracker = [c \in convs |-> Fresh]
    /\ net = [c \in convs |-> "answers"]
    /\ out = [c \in convs |-> <<>>]
    /\ calls = [c \in convs |-> <<>>]
    /\ resp = [c \in convs |-> NoResp]
    /\ smtp = [c \in convs |-> NoSession]
    /\ events = [c \in convs |-> <<>>]

\* the same process serving two conversations at once
ConcInit ==
    /\ config \in ConcConfigs
    /\ convs = AllConversations
    /\ pc = [c \in convs |-> "idle"]
    /\ action = [c \in convs |-> "none"]
    /\ tracker = [c \in convs |-> Fresh]
    /\ net = [c \in convs |-> "answers"]
    /\ out = [c \in convs |-> <<>>]
    /\ calls = [c \in convs |-> <<>>]
    /\ resp = [c \in convs |-> NoResp]
    /\ smtp = [c \in convs |-> NoSession]
    /\ events = [c \in convs |-> <<>>]

\* the dialogue engine starts a turn: a new dispatcher and tracker for run
Begin(c, name, trk) ==
    /\ c \in convs
    /\ pc[c] = "idle"
    /\ action' = [action EXCEPT ![c] = name]
    /\ tracker' = [tracker EXCEPT ![c] = trk]
    /\ UNCHANGED <<config, convs, resp>>

----------------------------------------------------------------------------
(* ActionFinancialAdvice *)

\* run up to requests.post (lines 31-38)
FinancialAdviceRun(c) ==
    \E trk \in TurnInputs, n \in NetBehaviours :
        /\ Begin(c, "action_financial_advice", trk)
        /\ LET user_message == ReadUserMessage(trk)
               request == [url  |-> GEMINI_API_URL,
                           key  |-> Format(GEMINI_API_KEY),
                           text |-> <<AdvicePrefix>> \o Format(user_message)]
           IN  calls' = [calls EXCEPT ![c] = <<request>>]
        /\ net' = [net EXCEPT ![c] = n]
        /\ out' = [out EXCEPT ![c] = <<>>]
        /\ smtp' = [smtp EXCEPT ![c] = NoSession]
        /\ pc' = [pc EXCEPT ![c] = "http"]
        /\ UNCHANGED events

\* requests.post resolves and run finishes (lines 38-50)
FinancialAdviceResolve(c) ==
    /\ c \in convs
    /\ pc[c] = "http"
    /\ action[c] = "action_financial_advice"
    /\ net[c] = "answers"
    /\ \E o \in HttpOutcomes(GeminiBodies) :
        /\ resp' = [resp EXCEPT ![c] = o]
        /\ out' = [out EXCEPT ![c] = out[c] \o AdviceMessages(o)]
        /\ calls' = [calls EXCEPT ![c] = RequestsAfter(calls[c], o)]
    /\ pc' = [pc EXCEPT ![c] = "returned"]
    /\ events' = [events EXCEPT ![c] = ReturnedEvents]
    /\ UNCHANGED <<config, convs, action, tracker, net, smtp>>

----------------------------------------------------------------------------
(* ActionGenerateImage *)

\* run up to requests.post, or to its return when it does not get there (lines 60-87)
GenerateImageRun(c) ==
    \E trk \in TurnInputs, n \in NetBehaviours :
        /\ Begin(c, "action_generate_image", trk)
        /\ smtp' = [smtp EXCEPT ![c] = NoSession]
        /\ LET parsed == ParsePrompt(ReadUserMessage(trk))
           IN  IF parsed.raised
               THEN /\ pc' = [pc EXCEPT ![c] = "raised"]
                    /\ UNCHANGED events
                    /\ out' = [out EXCEPT ![c] = <<>>]
                    /\ calls' = [calls EXCEPT ![c] = <<>>]
                    /\ net' = [net EXCEPT ![c] = "answers"]
               ELSE IF parsed.prompt = <<>>
               THEN /\ pc' = [pc EXCEPT ![c] = "returned"]
                    /\ events' = [events EXCEPT ![c] = ReturnedEvents]
                    /\ out' = [out EXCEPT ![c] = <<Utter(ImageUsage, PyNone)>>]
                    /\ calls' = [calls EXCEPT ![c] = <<>>]
                    /\ net' = [net EXCEPT ![c] = "answers"]
               ELSE IF ImageKeyMissing(IMAGE_API_KEY)
               THEN /\ pc' = [pc EXCEPT ![c] = "returned"]
                    /\ events' = [events EXCEPT ![c] = ReturnedEvents]
                    /\ out' = [out EXCEPT ![c] = ImageFailed]
                    /\ calls' = [calls EXCEPT ![c] = <<>>]
                    /\ net' = [net EXCEPT ![c] = "answers"]
               ELSE /\ pc' = [pc EXCEPT ![c] = "http"]
                    /\ UNCHANGED events
                    /\ out' = [out EXCEPT ![c] = <<>>]
                    /\ calls' = [calls EXCEPT ![c] =
                                    <<[url  |-> IMAGE_API_URL,
                                       key  |-> Format(IMAGE_API_KEY),
                                       text |-> parsed.prompt]>>]
                    /\ net' = [net EXCEPT ![c] = n]

\* requests.post resolves and run finishes (lines 72-100)
GenerateImageResolve(c) ==
    /\ c \in convs
    /\ pc[c] = "http"
    /\ action[c] = "action_generate_image"
    /\ net[c] = "answers"
    /\ \E o \in HttpOutcomes(ImageBodies) :
        /\ resp' = [resp EXCEPT ![c] = o]
        /\ out' = [out EXCEPT ![c] = out[c] \o ImageMessages(o)]
        /\ calls' = [calls EXCEPT ![c] = RequestsAfter(calls[c], o)]
    /\ pc' = [pc EXCEPT ![c] = "returned"]
    /\ events' = [events EXCEPT ![c] = ReturnedEvents]
    /\ UNCHANGED <<config, convs, action, tracker, net, smtp>>

----------------------------------------------------------------------------
(* ActionGetFAQ *)

\* the whole of run (lines 110-127)
GetFAQRun(c) ==
    \E trk \in TurnInputs :
        /\ Begin(c, "action_get_faq", trk)
        /\ out' = [out EXCEPT ![c] = <<Utter(FaqMessage, PyNone)>>]
        /\ calls' = [calls EXCEPT ![c] = <<>>]
        /\ net' = [net EXCEPT ![c] = "answers"]
        /\ smtp' = [smtp EXCEPT ![c] = NoSession]
        /\ pc' = [pc EXCEPT ![c] = "returned"]
        /\ events' = [events EXCEPT ![c] = ReturnedEvents]

----------------------------------------------------------------------------
(* ActionSubmitSuggestion *)

\* how a command on an established SMTP session can resolve: the server
\* accepts it, answers with an error code (the session stays up), or the
\* connection drops (smtplib closes its socket and raises)
SmtpOutcomes == {"ok", "error", "disconnected"}

\* the session after a command resolved as o
SessionAfter(s, o) ==
    IF o = "disconnected"
    THEN [s EXCEPT !.closed = s.closed + 1, !.open = FALSE]
    ELSE s

\* server.quit(): sends QUIT and closes the socket
SessionQuit(s) == [s EXCEPT !.closed = s.closed + 1, !.open = FALSE]

\* a handler that utters through a dispatcher kept at module level
SuggestionAbortShared(c, session) ==
    /\ smtp' = [smtp EXCEPT ![c] = session]
    /\ out' = [d \in DOMAIN out |-> out[d] \o SuggestionFailed]
    /\ pc' = [pc EXCEPT ![c] = "returned"]
    /\ net' = [net EXCEPT ![c] = "answers"]
    /\ events' = [events EXCEPT ![c] = ReturnedEvents]
    /\ UNCHANGED <<config, convs, action, tracker, calls, resp>>

\* the exception of a failed command reaches the except handler (lines 164-168)
SuggestionAbort(c, session) ==
    /\ smtp' = [smtp EXCEPT ![c] = session]
    /\ out' = [out EXCEPT ![c] = out[c] \o SuggestionFailed]
    /\ pc' = [pc EXCEPT ![c] = "returned"]
    /\ net' = [net EXCEPT ![c] = "answers"]
    /\ events' = [events EXCEPT ![c] = ReturnedEvents]
    /\ UNCHANGED <<config, convs, action, tracker, calls, resp>>

\* the command succeeded and the next blocking command is issued
SuggestionProceed(c, session, next) ==
    /\ smtp' = [smtp EXCEPT ![c] = session]
    /\ pc' = [pc EXCEPT ![c] = next]
    /\ \E n \in NetBehaviours : net' = [net EXCEPT ![c] = n]
    /\ UNCHANGED <<config, convs, action, tracker, out, calls, resp, events>>

InSmtp(c, step) ==
    /\ c \in convs
    /\ pc[c] = step
    /\ action[c] = "action_submit_suggestion"
    /\ net[c] = "answers"

\* run up to smtplib.SMTP(...) (lines 137-155)
SubmitSuggestionRun(c) ==
    \E trk \in TurnInputs, n \in NetBehaviours :
        /\ Begin(c, "action_submit_suggestion", trk)
        /\ out' = [out EXCEPT ![c] = <<>>]
        /\ calls' = [calls EXCEPT ![c] = <<>>]
        /\ smtp' = [smtp EXCEPT ![c] = NoSession]
        /\ net' = [net EXCEPT ![c] = n]
        /\ pc' = [pc EXCEPT ![c] = "connect"]
        /\ UNCHANGED events

\* smtplib.SMTP('smtp.gmail.com', 587) resolves (line 155): connected and
\* greeted, host unreachable, or greeted with a refusal (smtplib closes)
SmtpConnect(c) ==
    /\ InSmtp(c, "connect")
    /\ \E o \in {"ok", "unreachable", "refused"} :
        CASE o = "ok" ->
                SuggestionProceed(c, [smtp[c] EXCEPT !.opened = @ + 1, !.open = TRUE], "starttls")
          [] o = "unreachable" ->
                SuggestionAbort(c, smtp[c])
          [] o = "refused" ->
                SuggestionAbort(c, [smtp[c] EXCEPT !.opened = @ + 1, !.closed = @ + 1])

\* server.starttls() resolves (line 156)
SmtpStartTls(c) ==
    /\ InSmtp(c, "starttls")
    /\ \E o \in SmtpOutcomes :
        IF o = "ok"
        THEN SuggestionProceed(c, smtp[c], "login")
        ELSE SuggestionAbort(c, SessionAfter(smtp[c], o))

\* server.login(EMAIL_ADDRESS, EMAIL_PASSWORD) resolves (line 157)
SmtpLogin(c) ==
    /\ InSmtp(c, "login")
    /\ \E o \in SmtpOutcomes :
        /\ o = "ok" => LoginAcceptable
        /\ IF o = "ok"
           THEN SuggestionProceed(c, smtp[c], "sendmail")
           ELSE SuggestionAbort(c, SessionAfter(smtp[c], o))

\* server.sendmail(EMAIL_ADDRESS, TO_EMAIL, text) resolves (lines 158-159)
SmtpSendmail(c) ==
    /\ InSmtp(c, "sendmail")
    /\ \E o \in SmtpOutcomes :
        IF o = "ok"
        THEN SuggestionProceed(c,
                [smtp[c] EXCEPT !.sent = Append(@, Envelope(ReadUserMessage(tracker[c])))],
                "quit")
        ELSE SuggestionAbort(c, SessionAfter(smtp[c], o))

\* server.quit() resolves and run finishes (lines 160-168)
SmtpQuit(c) ==
    /\ InSmtp(c, "quit")
    /\ \E o \in {"ok", "disconnected"} :
        IF o = "ok"
        THEN /\ smtp' = [smtp EXCEPT ![c] = SessionQuit(smtp[c])]
             /\ out' = [out EXCEPT ![c] = out[c] \o <<Utter(SuggestionSent, PyNone)>>]
             /\ pc' = [pc EXCEPT ![c] = "returned"]
             /\ events' = [events EXCEPT ![c] = ReturnedEvents]
             /\ UNCHANGED <<config, convs, action, tracker, net, calls, resp>>
        ELSE SuggestionAbort(c, SessionAfter(smtp[c], o))

----------------------------------------------------------------------------
(* The dialogue engine *)

\* the engine takes the messages (or the exception) of the finished run; the
\* dispatcher, the tracker and the locals of that invocation are gone
EndTurn(c) ==
    /\ c \in convs
    /\ pc[c] \in Finished
    /\ pc' = [pc EXCEPT ![c] = "idle"]
    /\ action' = [action EXCEPT ![c] = "none"]
    /\ tracker' = [tracker EXCEPT ![c] = Fresh]
    /\ net' = [net EXCEPT ![c] = "answers"]
    /\ out' = [out EXCEPT ![c] = <<>>]
    /\ calls' = [calls EXCEPT ![c] = <<>>]
    /\ resp' = [resp EXCEPT ![c] = NoResp]
    /\ smtp' = [smtp EXCEPT ![c] = NoSession]
    /\ events' = [events EXCEPT ![c] = <<>>]
    /\ UNCHANGED <<config, convs>>

----------------------------------------------------------------------------
(* Specifications *)

Next ==
    \/ \E c \in AllConversations : FinancialAdviceRun(c)
    \/ \E c \in AllConversations : FinancialAdviceResolve(c)
    \/ \E c \in AllConversations : GenerateImageRun(c)
    \/ \E c \in AllConversations : GenerateImageResolve(c)
    \/ \E c \in AllConversations : GetFAQRun(c)
    \/ \E c \in AllConversations : SubmitSuggestionRun(c)
    \/ \E c \in AllConversations : SmtpConnect(c)
    \/ \E c \in AllConversations : SmtpStartTls(c)
    \/ \E c \in AllConversations : SmtpLogin(c)
    \/ \E c \in AllConversations : SmtpSendmail(c)
    \/ \E c \in AllConversations : SmtpQuit(c)
    \/ \E c \in AllConversations : EndTurn(c)

Spec == Init /\ [][Next]_vars

\* invocations of different conversations interleave at their blocking calls
ConcSpec == ConcInit /\ [][Next]_vars

\* a blocking call that the remote service answers does resolve, and run goes on
Resolve(c) ==
    \/ FinancialAdviceResolve(c)
    \/ GenerateImageResolve(c)
    \/ SmtpConnect(c)
    \/ SmtpStartTls(c)
    \/ SmtpLogin(c)
    \/ SmtpSendmail(c)
    \/ SmtpQuit(c)

FairSpec == Spec /\ \A c \in Conversations : WF_vars(Resolve(c))

TypeOK ==
    /\ config \in Configs
    /\ \A c \in convs :
        /\ pc[c] \in Finished \cup {"idle", "http", "connect", "starttls", "login", "sendmail", "quit"}
        /\ action[c] \in ActionNames \cup {"none"}
        /\ net[c] \in NetBehaviours
        /\ Len(calls[c]) \in 0..1

----------------------------------------------------------------------------
(* Vocabulary of the properties *)

Returned(c) == pc[c] = "returned"

Ran(c, name) == action[c] = name /\ pc[c] \in Finished

\* the text of the latest message is a str
HasText(c) ==
    /\ "text" \in DOMAIN tracker[c].latest_message
    /\ tracker[c].latest_message.text.type = "str"

UserText(c) == tracker[c].latest_message.text.s

OnlyBlanks(s) == \A i \in 1..Len(s) : s[i] = " "

\* the HTTP call was answered with a 2xx status and a JSON body
Answered2xx(o) == o.kind = "response" /\ o.status \in 200..299 /\ o.parses

\* the response carries candidates[0].content.parts[0].text = t
FirstCandidateIs(o, t) ==
    /\ Answered2xx(o)
    /\ \E b \in GeminiBodies :
        /\ o.body = b
        /\ "candidates" \in DOMAIN b
        /\ b.candidates # <<>>
        /\ "content" \in DOMAIN Head(b.candidates)
        /\ "parts" \in DOMAIN Head(b.candidates).content
        /\ Head(b.candidates).content.parts # <<>>
        /\ "text" \in DOMAIN Head(Head(b.candidates).content.parts)
        /\ Head(Head(b.candidates).content.parts).text = t

\* the response carries artifacts[0].base64
HasImageField(o) ==
    /\ Answered2xx(o)
    /\ "artifacts" \in DOMAIN o.body
    /\ o.body.artifacts # <<>>
    /\ "base64" \in DOMAIN Head(o.body.artifacts)

----------------------------------------------------------------------------
(* Properties *)

\* C1: no exception ever propagates out of run, whatever the action, the
\* snapshot and the outcome of the external call.
RunNeverRaises == \A c \in convs : pc[c] # "raised"

\* C2: when run has returned, exactly one message has been emitted through
\* the dispatcher; at no point of an invocation have two been emitted.
ExactlyOneMessage ==
    \A c \in convs :
        /\ Len(out[c]) <= 1
        /\ Returned(c) => Len(out[c]) = 1

\* an invocation whose external call failed has returned with its one message
OneMessageAfterFailure ==
    \E c \in convs :
        /\ Returned(c)
        /\ action[c] = "action_submit_suggestion"
        /\ smtp[c].opened = 1
        /\ smtp[c].sent = <<>>
        /\ Len(out[c]) = 1

\* C3: every emitted message carries non-empty text.
MessageTextNonEmpty ==
    \A c \in convs : \A i \in 1..Len(out[c]) : out[c][i].text # ""

\* C4: when the suggestion action has returned after opening the mail
\* connection, the connection was opened once, closed once, and is not open.
ConnectionReleased ==
    \A c \in convs :
        (Returned(c) /\ action[c] = "action_submit_suggestion" /\ smtp[c].opened >= 1)
            => (smtp[c].opened = 1 /\ smtp[c].closed = 1 /\ ~smtp[c].open)

\* C5: every invocation that is waiting on an external call eventually
\* finishes with its message emitted.
CallEventuallyResolves ==
    \A c \in Conversations :
        (pc[c] \in {"http", "connect", "starttls", "login", "sendmail", "quit"})
            ~> Returned(c)

NothingToImagine(c) ==
    \/ "text" \notin DOMAIN tracker[c].latest_message
    \/ /\ HasText(c)
       /\ \/ OnlyBlanks(UserText(c))
          \/ /\ IsPrefix(Trigger, UserText(c))
             /\ OnlyBlanks(Drop(UserText(c), Len(Trigger)))

\* C8: for a message with nothing after the trigger token the image action
\* makes no HTTP call and emits the usage instruction.
UsageWithoutCall ==
    \A c \in convs :
        (action[c] = "action_generate_image" /\ NothingToImagine(c)) =>
            /\ Returned(c)
            /\ calls[c] = <<>>
            /\ out[c] = <<[text |-> ImageUsage, image |-> PyNone]>>

\* the image action ran on "/imagine " (the trigger token and one blank)
TriggerThenBlank ==
    \E c \in convs :
        /\ Returned(c)
        /\ action[c] = "action_generate_image"
        /\ HasText(c)
        /\ UserText(c) = Trigger \o <<" ">>

\* the message has a character that is neither blank nor part of a trigger token
HasPromptLetter(c) == HasText(c) /\ \E i \in 1..Len(UserText(c)) : UserText(c)[i] = "x"

ImageCredentialMissing == IMAGE_API_KEY \in {PyNone, PyStr(<<>>)}

\* C9: with a prompt and without the image credential, the image action
\* issues no HTTP call and emits the image fallback.
NoCallWithoutImageKey ==
    \A c \in convs :
        (action[c] = "action_generate_image" /\ HasPromptLetter(c) /\ ImageCredentialMissing) =>
            /\ Returned(c)
            /\ calls[c] = <<>>
            /\ out[c] = <<[text |-> ImageFallback, image |-> PyNone]>>

\* the image action ran on a prompt while IMAGE_API_KEY was unset
PromptWithoutImageKey ==
    \E c \in convs :
        /\ Returned(c)
        /\ action[c] = "action_generate_image"
        /\ HasPromptLetter(c)
        /\ IMAGE_API_KEY = PyNone

\* C10: without a text-generation key, the financial-advice action emits the
\* fixed fallback whatever the endpoint answers.
FallbackWithoutGeminiKey ==
    \A c \in convs :
        (Returned(c) /\ action[c] = "action_financial_advice" /\ GEMINI_API_KEY = PyNone)
            => out[c] = <<[text |-> AdviceFallback, image |-> PyNone]>>

\* C11: an invocation issues at most one external call: at most one HTTP
\* request or one mail session, never both; a call is only ever issued by
\* the step that starts the invocation, so none follows a failure.
AtMostOneExternalCall ==
    [][\A c \in convs :
        /\ Len(calls'[c]) + smtp'[c].opened <= 1
        /\ (pc'[c] \in {"http", "connect"} /\ pc'[c] # pc[c]) => pc[c] = "idle"
        /\ (pc[c] \in {"http", "connect", "starttls", "login", "sendmail", "quit"}
                /\ out'[c] # out[c]) => Returned(c)']_vars

\* the text-generation request failed on the network and the action has
\* returned with that one request on record
AdviceCallFailedOnce ==
    \E c \in convs :
        /\ Returned(c)
        /\ action[c] = "action_financial_advice"
        /\ resp[c].kind = "neterr"
        /\ Len(calls[c]) = 1
        /\ Len(out[c]) = 1

\* everything an invocation of conversation c holds
Local(c) == <<pc[c], action[c], tracker[c], net[c], out[c], calls[c], resp[c], smtp[c], events[c]>>

\* what the invocation of c emits when it runs alone on its snapshot, with
\* its external call resolving as it did, under the configuration
AloneMessages(c) ==
    CASE action[c] = "action_get_faq" -> {<<[text |-> FaqMessage, image |-> PyNone]>>}
      [] action[c] = "action_financial_advice" -> {AdviceMessages(resp[c])}
      [] action[c] = "action_generate_image" ->
            IF resp[c] # NoResp THEN {ImageMessages(resp[c])}
            ELSE IF ParsePrompt(ReadUserMessage(tracker[c])).prompt = <<>>
            THEN {<<[text |-> ImageUsage, image |-> PyNone]>>}
            ELSE {<<[text |-> ImageFallback, image |-> PyNone]>>}
      [] action[c] = "action_submit_suggestion" ->
            IF smtp[c].sent = <<>>
            THEN {<<[text |-> SuggestionNoted, image |-> PyNone]>>}
            ELSE {<<[text |-> SuggestionNoted, image |-> PyNone]>>,
                  <<[text |-> SuggestionSent, image |-> PyNone]>>}

\* C12: in every interleaving of two conversations the configuration never
\* changes, a step of one invocation leaves everything the other holds
\* untouched, and what an invocation has emitted at its return is what it
\* emits alone on its own snapshot and call outcome.
NoSharedMutableState ==
    [][/\ config' = config
       /\ \A c \in convs :
            Local(c)' # Local(c) =>
                /\ \A d \in convs \ {c} : Local(d)' = Local(d)
                /\ Returned(c)' => out'[c] \in AloneMessages(c)']_vars

\* two invocations have finished side by side: a failed suggestion submission
\* and an answered financial-advice request
TwoInvocationsSideBySide ==
    /\ convs = AllConversations
    /\ Returned("c1") /\ action["c1"] = "action_submit_suggestion"
    /\ smtp["c1"].opened = 1 /\ smtp["c1"].sent = <<>>
    /\ Returned("c2") /\ action["c2"] = "action_financial_advice"
    /\ out["c2"] # out["c1"]

\* C13: on every path an action returns the empty list of events, and from
\* the start of an invocation to its end the tracker it was given is unchanged.
NoEventsTrackerUntouched ==
    [][\A c \in convs :
        /\ Returned(c)' => events'[c] = <<>>
        /\ (pc[c] # "idle" /\ pc'[c] # "idle") => tracker'[c] = tracker[c]]_vars

\* the image action has returned from its precondition short-circuit with
\* no events, the tracker still the one it was given
ReturnedFromShortCircuit ==
    \E c \in convs :
        /\ Returned(c)
        /\ action[c] = "action_generate_image"
        /\ out[c] = <<[text |-> ImageUsage, image |-> PyNone]>>
        /\ events[c] = <<>>
        /\ tracker[c] # Fresh

----------------------------------------------------------------------------
(* Reading a data URI back: RFC 2397 and RFC 4648 *)

B64Chars ==
    <<"A", "B", "C", "D", "E", "F", "G", "H", "I", "J", "K", "L", "M", "N", "O", "P",
      "Q", "R", "S", "T", "U", "V", "W", "X", "Y", "Z", "a", "b", "c", "d", "e", "f",
      "g", "h", "i", "j", "k", "l", "m", "n", "o", "p", "q", "r", "s", "t", "u", "v",
      "w", "x", "y", "z", "0", "1", "2", "3", "4", "5", "6", "7", "8", "9", "+", "/">>

IsB64Char(ch) == \E i \in 1..Len(B64Chars) : B64Chars[i] = ch

\* the six bits a base64 character stands for
B64Value(ch) == (CHOOSE i \in 1..Len(B64Chars) : B64Chars[i] = ch) - 1

\* the bytes of one group of four characters, or <<-1>> for a malformed group
B64Group(q) ==
    LET pad == IF q[4] # "=" THEN 0 ELSE IF q[3] # "=" THEN 1 ELSE 2
        val(i) == IF i > 4 - pad THEN 0 ELSE B64Value(q[i])
        n == val(1) * 262144 + val(2) * 4096 + val(3) * 64 + val(4)
    IN  IF \E i \in 1..(4 - pad) : ~IsB64Char(q[i]) THEN <<-1>>
        ELSE SubSeq(<<n \div 65536, (n \div 256) % 256, n % 256>>, 1, 3 - pad)

RECURSIVE B64Bytes(_)
B64Bytes(s) ==
    IF s = <<>> THEN <<>>
    ELSE IF Len(s) < 4 THEN <<-1>>
    ELSE IF Len(s) > 4 /\ s[4] = "=" THEN <<-1>>
    ELSE B64Group(SubSeq(s, 1, 4)) \o B64Bytes(Drop(s, 4))

\* base64 decoding: the bytes, or a failure
B64Decode(s) ==
    LET bytes == B64Bytes(s)
    IN  IF \E i \in 1..Len(bytes) : bytes[i] = -1
        THEN [ok |-> FALSE]
        ELSE [ok |-> TRUE, bytes |-> bytes]

\* the position of the first comma of a URI, 0 if it has none
FirstComma(u) ==
    IF \E i \in 1..Len(u) : u[i] = ","
    THEN CHOOSE i \in 1..Len(u) : u[i] = "," /\ \A j \in 1..(i - 1) : u[j] # ","
    ELSE 0

\* the bytes a reader gets out of a base64 PNG data URI
DataUriDecode(u) ==
    LET k == FirstComma(u)
    IN  IF k = 0 \/ SubSeq(u, 1, k) # DataUriPrefix
        THEN [ok |-> FALSE]
        ELSE B64Decode(Drop(u, k))

\* C14: after a successful image response whose artifacts[0].base64 is the
\* base64 text b, the one emitted message carries the caption, and its
\* image, read back as a data URI, gives exactly the bytes b encodes.
ImageRoundTrip ==
    \A c \in convs :
        (Returned(c) /\ action[c] = "action_generate_image" /\ HasImageField(resp[c])) =>
            LET b == Head(resp[c].body.artifacts).base64
            IN  (b.type = "str" /\ B64Decode(b.s).ok) =>
                    /\ Len(out[c]) = 1
                    /\ out[c][1].text = ImageCaption
                    /\ out[c][1].image.type = "str"
                    /\ DataUriDecode(out[c][1].image.s) = B64Decode(b.s)

\* the image service returned the base64 of the three bytes "ABC" followed
\* by a padded group, and the action has returned
ImageOfFourBytes ==
    \E c \in convs :
        /\ Returned(c)
        /\ action[c] = "action_generate_image"
        /\ HasImageField(resp[c])
        /\ Head(resp[c].body.artifacts).base64 = PyStr(<<"Q", "U", "J", "D", "Q", "Q", "=", "=">>)
        /\ B64Decode(<<"Q", "U", "J", "D", "Q", "Q", "=", "=">>) = [ok |-> TRUE, bytes |-> <<65, 66, 67, 65>>]

\* C15: the suggestion action emits the confirmation exactly when sendmail
\* accepted the envelope, and the softer fallback exactly when it did not.
ConfirmationIffAccepted ==
    \A c \in convs :
        (Returned(c) /\ action[c] = "action_submit_suggestion") =>
            IF smtp[c].sent # <<>>
            THEN out[c] = <<[text |-> SuggestionSent, image |-> PyNone]>>
            ELSE out[c] = <<[text |-> SuggestionNoted, image |-> PyNone]>>

\* a message without its leading trigger token
WithoutLeadingTrigger(s) == IF IsPrefix(Trigger, s) THEN Drop(s, Len(Trigger)) ELSE s

\* the prompt C16 describes; blanks before the token may be trimmed first
PromptsOf(s) ==
    {StrStrip(WithoutLeadingTrigger(s)), StrStrip(WithoutLeadingTrigger(StrStrip(s)))}

\* C16: the prompt sent to the image service is the user message without its
\* leading trigger token, trimmed, the rest of the text unchanged.
PromptIsRestOfMessage ==
    \A c \in convs :
        (action[c] = "action_generate_image" /\ calls[c] # <<>>) =>
            calls[c][1].text \in PromptsOf(UserText(c))

====
